---- MODULE Spec2Model ----
(***************************************************************************)
(* Signature Service (src/main.py): two POST endpoints that sign a payload *)
(* with a certificate found by serial number in the current-user store,    *)
(* through the CAdESCOM COM objects.                                        *)
(*                                                                         *)
(* Text is modelled as sequences of Unicode code points, bytes as numbers  *)
(* 0..255, base64 text as sequences of alphabet indices 0..63 with 64 for  *)
(* the padding character.  The handlers are `async def` coroutines without *)
(* any await, run by uvicorn's single event loop: a handler occupies the   *)
(* loop from its first statement to its return or raise.                   *)
(***************************************************************************)
EXTENDS Naturals, Sequences, FiniteSets

\* ------------------------------------------------------------------------
\* Bounds of the model
\* ------------------------------------------------------------------------
NumRequests == 2
MaxStore == 2
MaxPayloadLen == 1

\* ------------------------------------------------------------------------
\* Input domains
\* ------------------------------------------------------------------------
Requests == 1..NumRequests

\* 'a', ' ', LF, CR and U+00E9 (outside ASCII)
PayloadChars == {97, 32, 10, 13, 233}

\* "a1", "A1", "b1"
SerialNumbers == {<<97, 49>>, <<65, 49>>, <<98, 49>>}

\* opaque base64 strings handed back by SignCades
Signatures == {"sigX", "sigY"}

SeqsUpTo(S, n) == UNION {[1..k -> S] : k \in 0..n}

Payloads == SeqsUpTo(PayloadChars, MaxPayloadLen)

Stores == SeqsUpTo(SerialNumbers, MaxStore)

\* ------------------------------------------------------------------------
\* Pure functions of the source
\* ------------------------------------------------------------------------
HTTP_200_OK == 200
HTTP_404_NOT_FOUND == 404
HTTP_500_INTERNAL_SERVER_ERROR == 500

\* str.lower() on the code points used in serial numbers
LowerChar(c) == IF c \in 65..90 THEN c + 32 ELSE c

LowerKeepCase(s) == s

Lower(s) == [i \in 1..Len(s) |-> LowerChar(s[i])]

\* str.replace(old, new) for a one-character old and a new of length <= 1
RECURSIVE Replace(_, _, _)
Replace(s, old, new) ==
    IF s = <<>> THEN <<>>
    ELSE (IF Head(s) = old THEN new ELSE <<Head(s)>>) \o Replace(Tail(s), old, new)

\* str.encode('ascii'): defined only when every code point is below 128
AsciiEncodable(s) == \A i \in 1..Len(s) : s[i] < 128

AsciiEncode(s) == s

\* str.encode(): UTF-8, code points below 0x800
Utf8Char(c) == IF c < 128 THEN <<c>> ELSE <<192 + (c \div 64), 128 + (c % 64)>>

RECURSIVE Utf8Encode(_)
Utf8Encode(s) == IF s = <<>> THEN <<>> ELSE Utf8Char(Head(s)) \o Utf8Encode(Tail(s))

\* base64.b64encode: three bytes to four sextets, '=' (64) padding
RECURSIVE B64Encode(_)
B64Encode(b) ==
    IF Len(b) = 0 THEN <<>>
    ELSE IF Len(b) = 1 THEN
        <<b[1] \div 4, (b[1] % 4) * 16, 64, 64>>
    ELSE IF Len(b) = 2 THEN
        <<b[1] \div 4, (b[1] % 4) * 16 + (b[2] \div 16), (b[2] % 16) * 4, 64>>
    ELSE
        <<b[1] \div 4,
          (b[1] % 4) * 16 + (b[2] \div 16),
          (b[2] % 16) * 4 + (b[3] \div 64),
          b[3] % 64>> \o B64Encode(SubSeq(b, 4, Len(b)))

\* attached_signed_data: base64 of the ASCII bytes of the payload
AttachedContent(data) == B64Encode(AsciiEncode(data))

\* unpinned_signed_data, line 141:
\* replace(' ', ' ').replace('\n', '').replace('\r', '')
Normalize(data) == Replace(Replace(Replace(data, 32, <<32>>), 10, <<>>), 13, <<>>)

UnpinnedContent(data) == B64Encode(Utf8Encode(Normalize(data)))

\* `if not oCert`: oCert is None (0 here) when the loop found nothing
CertMissingNever(c) == FALSE

CertMissing(c) == c = 0

\* the comparison of the lookup loop, lines 82-83
SerialMatchesNoLower(element, serial_number) == Lower(element) = LowerKeepCase(serial_number)

SerialMatches(element, serial_number) == Lower(element) = Lower(serial_number)

\* except ValueError (UnicodeEncodeError is a subclass of ValueError)
IsValueError(e) == e \in {"ValueError", "UnicodeEncodeError"}

\* the status code of the handlers' except clauses
StatusCodeAll500(e) == HTTP_500_INTERNAL_SERVER_ERROR

StatusCode(e) ==
    IF IsValueError(e) THEN HTTP_404_NOT_FOUND ELSE HTTP_500_INTERNAL_SERVER_ERROR

\* the literal passed as SignResponse.status by each endpoint
SuccessStatus(m) == IF m = "attached" THEN "succes" ELSE "success"

\* _com_context: an exception inside the with-block runs the finally clause
AfterRaiseNoFinally == "respond"

AfterRaiseInContext == "finally"

\* SignCades raising: the exception leaves signed_data, nothing calls it again
AfterSignFailureRetry == "sign"

AfterSignFailure == AfterRaiseInContext

\* ------------------------------------------------------------------------
\* State
\* ------------------------------------------------------------------------
VARIABLES store,     \* serial numbers of oStore.Certificates, in enumeration order
          loop,      \* the request whose handler occupies the event loop, 0 if none
          comDepth,  \* CoInitialize nesting of the event-loop thread
          req        \* per request: position and locals of its handler

vars == <<store, loop, comDepth, req>>

NoResponse == [code |-> 0, status |-> "", signed_data |-> ""]

IdleRequest ==
    [pc |-> "idle", mode |-> "attached", data |-> <<>>, serial_number |-> <<>>,
     base64_data |-> <<>>, idx |-> 0, oCert |-> 0, raised |-> "None",
     storeOpen |-> FALSE, initCount |-> 0, uninitCount |-> 0, openCount |-> 0,
     signerCreated |-> FALSE, attrAttached |-> FALSE, signCount |-> 0,
     sSignedData |-> "", response |-> NoResponse]

Init ==
    /\ store \in Stores
    /\ loop = 0
    /\ comDepth = 0
    /\ req = [r \in Requests |-> IdleRequest]

\* ------------------------------------------------------------------------
\* Steps of a handler
\* ------------------------------------------------------------------------
At(r, p) == loop = r /\ req[r].pc = p

\* the event loop dispatches a pending request to sign_attached / sign_unpinned
Start(r) ==
    /\ loop = 0
    /\ req[r].pc = "idle"
    /\ \E m \in {"attached", "unpinned"}, d \in Payloads, s \in SerialNumbers :
          req' = [req EXCEPT ![r] = [IdleRequest EXCEPT !.pc = "prepare", !.mode = m,
                                                       !.data = d, !.serial_number = s]]
    /\ loop' = r
    /\ UNCHANGED <<store, comDepth>>

\* attached_signed_data / unpinned_signed_data up to the call of signed_data
Prepare(r) ==
    /\ At(r, "prepare")
    /\ IF req[r].mode = "attached"
       THEN IF AsciiEncodable(req[r].data)
            THEN req' = [req EXCEPT ![r].base64_data = AttachedContent(req[r].data),
                                    ![r].pc = "coinit"]
            ELSE req' = [req EXCEPT ![r].raised = "UnicodeEncodeError",
                                    ![r].pc = "respond"]
       ELSE req' = [req EXCEPT ![r].base64_data = UnpinnedContent(req[r].data),
                               ![r].pc = "coinit"]
    /\ UNCHANGED <<store, loop, comDepth>>

\* _com_context: pythoncom.CoInitialize() before the try
CoInitialize(r) ==
    /\ At(r, "coinit")
    /\ \E ok \in BOOLEAN :
          IF ok
          THEN /\ comDepth' = comDepth + 1
               /\ req' = [req EXCEPT ![r].initCount = @ + 1, ![r].pc = "open"]
          ELSE /\ comDepth' = comDepth
               /\ req' = [req EXCEPT ![r].raised = "com_error", ![r].pc = "respond"]
    /\ UNCHANGED <<store, loop>>

\* Dispatch('CAdESCOM.STORE') and oStore.Open(...)
OpenStore(r) ==
    /\ At(r, "open")
    /\ \E ok \in BOOLEAN :
          IF ok
          THEN req' = [req EXCEPT ![r].openCount = @ + 1, ![r].storeOpen = TRUE,
                                  ![r].oCert = 0, ![r].idx = 1, ![r].pc = "enumerate"]
          ELSE req' = [req EXCEPT ![r].openCount = @ + 1, ![r].raised = "com_error",
                                  ![r].pc = AfterRaiseInContext]
    /\ UNCHANGED <<store, loop, comDepth>>

\* one iteration of `for element_oStore in oStore.Certificates`
Enumerate(r) ==
    /\ At(r, "enumerate")
    /\ IF req[r].idx > Len(store)
       THEN req' = [req EXCEPT ![r].pc = "check"]
       ELSE \E ok \in BOOLEAN :
               IF ~ok
               THEN req' = [req EXCEPT ![r].raised = "com_error",
                                       ![r].pc = AfterRaiseInContext]
               ELSE IF SerialMatches(store[req[r].idx], req[r].serial_number)
                    THEN req' = [req EXCEPT ![r].oCert = req[r].idx, ![r].pc = "check"]
                    ELSE req' = [req EXCEPT ![r].idx = @ + 1]
    /\ UNCHANGED <<store, loop, comDepth>>

\* `if not oCert: raise ValueError(...)`
CheckCert(r) ==
    /\ At(r, "check")
    /\ IF CertMissing(req[r].oCert)
       THEN req' = [req EXCEPT ![r].raised = "ValueError", ![r].pc = AfterRaiseInContext]
       ELSE req' = [req EXCEPT ![r].pc = "signer"]
    /\ UNCHANGED <<store, loop, comDepth>>

\* Dispatch("CAdESCOM.CPSigner"); oSigner.Certificate = oCert
CreateSigner(r) ==
    /\ At(r, "signer")
    /\ \E ok \in BOOLEAN :
          IF ok
          THEN req' = [req EXCEPT ![r].signerCreated = TRUE, ![r].pc = "attr"]
          ELSE req' = [req EXCEPT ![r].raised = "com_error", ![r].pc = AfterRaiseInContext]
    /\ UNCHANGED <<store, loop, comDepth>>

\* CPAttribute with the signing time, AuthenticatedAttributes2.Add, CadesSignedData
AttachAttr(r) ==
    /\ At(r, "attr")
    /\ \E ok \in BOOLEAN :
          IF ok
          THEN req' = [req EXCEPT ![r].attrAttached = TRUE, ![r].pc = "sign"]
          ELSE req' = [req EXCEPT ![r].raised = "com_error", ![r].pc = AfterRaiseInContext]
    /\ UNCHANGED <<store, loop, comDepth>>

\* oSignedData.SignCades(...): returns, raises, or never returns
SignCades(r) ==
    /\ At(r, "sign")
    /\ \/ \E sig \in Signatures :
             req' = [req EXCEPT ![r].signCount = @ + 1, ![r].sSignedData = sig,
                                ![r].pc = "finally"]
       \/ req' = [req EXCEPT ![r].signCount = @ + 1, ![r].raised = "com_error",
                             ![r].pc = AfterSignFailure]
       \/ req' = [req EXCEPT ![r].signCount = @ + 1, ![r].pc = "hung"]
    /\ UNCHANGED <<store, loop, comDepth>>

\* _com_context: finally: pythoncom.CoUninitialize()
CoUninitialize(r) ==
    /\ At(r, "finally")
    /\ comDepth' = comDepth - 1
    /\ req' = [req EXCEPT ![r].uninitCount = @ + 1, ![r].pc = "respond"]
    /\ UNCHANGED <<store, loop>>

\* the handler's return SignResponse(...) or its except clauses
Respond(r) ==
    /\ At(r, "respond")
    /\ IF req[r].raised = "None"
       THEN req' = [req EXCEPT ![r].response =
                        [code |-> HTTP_200_OK, status |-> SuccessStatus(req[r].mode),
                         signed_data |-> req[r].sSignedData],
                               ![r].pc = "done"]
       ELSE req' = [req EXCEPT ![r].response =
                        [code |-> StatusCode(req[r].raised), status |-> "",
                         signed_data |-> ""],
                               ![r].pc = "done"]
    /\ UNCHANGED <<store, loop, comDepth>>

\* the coroutine has ended: its frame is dropped and the loop takes the next one
Finish(r) ==
    /\ At(r, "done")
    /\ req' = [req EXCEPT ![r] = IdleRequest]
    /\ loop' = 0
    /\ UNCHANGED <<store, comDepth>>

Step(r) ==
    \/ Prepare(r)
    \/ CoInitialize(r)
    \/ OpenStore(r)
    \/ Enumerate(r)
    \/ CheckCert(r)
    \/ CreateSigner(r)
    \/ AttachAttr(r)
    \/ SignCades(r)
    \/ CoUninitialize(r)
    \/ Respond(r)
    \/ Finish(r)

Next == \E r \in Requests : Start(r) \/ Step(r)

Spec == Init /\ [][Next]_vars

\* ------------------------------------------------------------------------
\* Vocabulary of the properties
\* ------------------------------------------------------------------------
Done(r) == req[r].pc = "done"

\* two characters equal up to letter case
SameCharIgnoringCase(c, d) ==
    \/ c = d
    \/ \E k \in 0..25 : {c, d} = {65 + k, 97 + k}

SameIgnoringCase(s, t) ==
    /\ Len(s) = Len(t)
    /\ \A i \in 1..Len(s) : SameCharIgnoringCase(s[i], t[i])

\* position of the first certificate of the store matching s, 0 if there is none
FirstMatching(s) ==
    IF \E i \in 1..Len(store) : SameIgnoringCase(store[i], s)
    THEN CHOOSE i \in 1..Len(store) :
            /\ SameIgnoringCase(store[i], s)
            /\ \A j \in 1..(i - 1) : ~SameIgnoringCase(store[j], s)
    ELSE 0

SerialAbsent(r) == FirstMatching(req[r].serial_number) = 0

\* the loop over the store has ended without a COM failure
LookupReturned(r) ==
    \/ req[r].pc \in {"check", "signer", "attr", "sign", "hung"}
    \/ /\ req[r].pc \in {"finally", "respond", "done"}
       /\ req[r].raised \in {"None", "ValueError"}
       /\ req[r].openCount > 0

\* a payload without its space, carriage-return and line-feed characters
StripWs(s) == SelectSeq(s, LAMBDA c : c \notin {32, 10, 13})

\* content preparation can encode the payload
PayloadEncodes(r) ==
    req[r].mode = "attached" => \A i \in 1..Len(req[r].data) : req[r].data[i] < 128

\* ------------------------------------------------------------------------
\* Properties
\* ------------------------------------------------------------------------

\* C1: only a failed certificate lookup answers 404; a request that failed in any
\* other way (payload encoding, store, signing, unclassified) answers 500.
Cx1_OtherFailuresAnswer500 ==
    \A r \in Requests :
        (Done(r) /\ req[r].raised \notin {"None", "ValueError"})
            => req[r].response.code = HTTP_500_INTERNAL_SERVER_ERROR

\* C2: every successful request, on either endpoint, returns status "succeeded".
Cx2_SuccessStatusSucceeded ==
    \A r \in Requests :
        (Done(r) /\ req[r].raised = "None") => req[r].response.status = "succeeded"

\* C3: when a request has finished, on any exit path, the store session it
\* opened is closed.
Cx3_StoreSessionReleased ==
    \A r \in Requests : Done(r) => ~req[r].storeOpen

\* C4: in detached mode every payload that differs from the request's payload only
\* in its space, CR and LF characters yields the same base64 pre-signing content.
Cx4_WhitespaceInsensitive ==
    \A r \in Requests :
        (req[r].mode = "unpinned" /\ req[r].pc \notin {"idle", "prepare"})
            => \A q \in Payloads :
                  StripWs(q) = StripWs(req[r].data) => UnpinnedContent(q) = req[r].base64_data

Thm6_FirstCaseInsensitiveMatch ==
    \A r \in Requests :
        LookupReturned(r)
            => \A s \in SerialNumbers :
                  SameIgnoringCase(s, req[r].serial_number) => req[r].oCert = FirstMatching(s)

Wit6_FirstOfDuplicates ==
    \E r \in Requests :
        /\ LookupReturned(r)
        /\ Len(store) >= 2
        /\ req[r].oCert = 1
        /\ store[1] # req[r].serial_number
        /\ store[2] = req[r].serial_number

\* C8: within one request the store is opened at most once and SignCades is invoked
\* at most once, and once anything has failed the request only unwinds to its
\* error response.
Thm8_NoRetry ==
    \A r \in Requests :
        /\ req[r].openCount <= 1
        /\ req[r].signCount <= 1
        /\ req[r].raised # "None" => req[r].pc \in {"finally", "respond", "done"}

Wit8_SignFailedOnce ==
    \E r \in Requests :
        /\ Done(r)
        /\ req[r].raised = "com_error"
        /\ req[r].openCount = 1
        /\ req[r].signCount = 1
        /\ req[r].response.code = HTTP_500_INTERNAL_SERVER_ERROR

\* C9: the signer is created, the signing-time attribute attached and SignCades
\* invoked, in that order, only once the lookup has found a matching certificate;
\* a request without a certificate never performs any of the three.
Thm9_SigningAfterLookup ==
    \A r \in Requests :
        /\ (req[r].signerCreated \/ req[r].pc \in {"signer", "attr", "sign", "hung"})
              => /\ req[r].oCert \in 1..Len(store)
                 /\ SameIgnoringCase(store[req[r].oCert], req[r].serial_number)
        /\ req[r].attrAttached => req[r].signerCreated
        /\ req[r].signCount > 0 => req[r].attrAttached
        /\ (req[r].oCert = 0 \/ req[r].raised = "ValueError")
              => ~req[r].signerCreated /\ ~req[r].attrAttached /\ req[r].signCount = 0

Wit9_NotFoundNoSigning ==
    \E r \in Requests :
        /\ Done(r)
        /\ req[r].raised = "ValueError"
        /\ Len(store) > 0
        /\ ~req[r].signerCreated /\ ~req[r].attrAttached /\ req[r].signCount = 0

\* C10: a successful CoInitialize is followed by exactly one CoUninitialize
\* on every exit path, and the store is opened and enumerated, the signer created
\* and SignCades called only between the two.
Thm10_ComPaired ==
    \A r \in Requests :
        /\ req[r].uninitCount <= req[r].initCount
        /\ req[r].initCount <= 1
        /\ req[r].pc \in {"respond", "done"} => req[r].uninitCount = req[r].initCount
        /\ req[r].pc \in {"respond", "done"} => comDepth = 0
        /\ req[r].pc \in {"open", "enumerate", "check", "signer", "attr", "sign", "hung"}
              => /\ comDepth > 0
                 /\ req[r].initCount = 1
                 /\ req[r].uninitCount = 0

Wit10_UninitAfterSignFailure ==
    \E r \in Requests :
        /\ Done(r)
        /\ req[r].raised = "com_error"
        /\ req[r].signCount = 1
        /\ req[r].initCount = 1
        /\ req[r].uninitCount = 1

\* asyncio runs ready callbacks in FIFO order and a running handler keeps running
FairSpec ==
    /\ Spec
    /\ \A r \in Requests : SF_vars(Start(r)) /\ WF_vars(Step(r))

\* C7: a request waiting to be handled is eventually answered unless its own
\* signing call hangs, whatever happens to the other requests.
Cx7_HangBlocksOnlyItsRequest ==
    \A r \in Requests : (req[r].pc = "idle") ~> (req[r].pc \in {"done", "hung"})

====
